---- MODULE Spec2Model ----
(***************************************************************************)
(* Reconciliation engine of terraform-provider-salty: the list resource    *)
(* (GrainResource, internal/provider/provider.go lines 579-1203) and the   *)
(* scalar resource (GrainStringResource, unnamed/part_000).                *)
(*                                                                         *)
(* A caller is one resource instance; the framework calls Create, Read,    *)
(* Update or Delete on it, one call at a time per instance, several        *)
(* instances in parallel.  Every handler is a sequence of blocking remote  *)
(* calls (inventory poll, SSH command); the model has one step per remote  *)
(* call, and the minion, the inventory service and the SSH transport are   *)
(* the environment.                                                        *)
(***************************************************************************)
EXTENDS Integers, Sequences, FiniteSets, TLC

\* ------------------------------------------------------------------ bounds
MaxLen == 2
MaxPolls == 2

\* ------------------------------------------------------- program constants
TimeoutSeconds == 1800
PollSeconds == 10

\* ------------------------------------------------------------ input domains
Procs == {1, 2}
Hosts == {"h1", "h2"}
Keys == {"roles", "env"}
Values == {"docker", "web", "db srv"}
Targets == {<<"h1", "roles">>, <<"h2", "env">>}
Kinds == {"list", "scalar"}
OpNames == {"Create", "Read", "Update", "Delete"}

Lists(n) == UNION {[1..k -> Values] : k \in 0..n}

Elems(l) == {l[i] : i \in 1..Len(l)}

\* ------------------------------------------------------------- grain values
\* GrainValue: a scalar string, a list of strings, or nothing (key unset).
Absent == [t |-> "absent", s |-> "", l |-> <<>>]
Str(s) == [t |-> "str", s |-> s, l |-> <<>>]
Lst(l) == [t |-> "list", s |-> "", l |-> l]

InitGrains == {Absent} \cup {Str(s) : s \in Values} \cup {Lst(l) : l \in Lists(MaxLen)}

Bystander == Lst(<<"web">>)

\* ------------------------------------------------------ command-line tokens
\* types.String.String() renders a value in double quotes; a Go string
\* formatted with %s is rendered bare.  The minion's shell reads a quoted
\* token as one word and splits a bare one at its blanks; salt-call takes
\* the first word after the key as the value.
Quoted(s) == [q |-> TRUE, s |-> s]
Bare(s) == [q |-> FALSE, s |-> s]
NoWord == [q |-> FALSE, s |-> ""]

\* The blank-separated words of a string of Values or Keys.
Words(s) == IF s = "db srv" THEN <<"db", "srv">> ELSE <<s>>

ShellWord(w) == IF w.q THEN w.s ELSE Words(w.s)[1]

\* ------------------------------------------------- the minion's grain store
RemoveFirst(l, v) ==
    LET hit == {i \in 1..Len(l) : l[i] = v}
        first == CHOOSE i \in hit : \A j \in hit : i <= j
    IN  IF hit = {} THEN l
        ELSE SubSeq(l, 1, first - 1) \o SubSeq(l, first + 1, Len(l))

HostAppendFront(g, v) ==
    IF g.t = "absent" THEN Lst(<<v>>)
    ELSE IF g.t = "list" /\ v \notin Elems(g.l) THEN Lst(<<v>> \o g.l)
    ELSE g

\* grains.append: creates the list when the key is unset, adds the value
\* when the list does not hold it, leaves anything else alone.
HostAppend(g, v) ==
    IF g.t = "absent" THEN Lst(<<v>>)
    ELSE IF g.t = "list" /\ v \notin Elems(g.l) THEN Lst(Append(g.l, v))
    ELSE g

HostRemoveAll(g, v) == IF g.t = "list" THEN Lst(<<>>) ELSE g

\* grains.remove: removes one occurrence of the value from a list.
HostRemove(g, v) == IF g.t = "list" THEN Lst(RemoveFirst(g.l, v)) ELSE g

\* grains.setval: overwrites the key with the scalar.
HostSetval(g, v) == Str(v)

\* grains.delkey: unsets the key.
HostDelkey(g) == Absent

\* grains.get --out=json: the envelope {"local": <string> | <array> | null}.
HostGet(g) == g

MutVerbs == {"append", "remove", "setval", "delkey"}

HostApply(verb, g, v) ==
    CASE verb = "append" -> HostAppend(g, v)
      [] verb = "remove" -> HostRemove(g, v)
      [] verb = "setval" -> HostSetval(g, v)
      [] verb = "delkey" -> HostDelkey(g)
      [] OTHER -> g

\* --------------------------------------------------------------- GrainCodec
Reverse(l) == [i \in 1..Len(l) |-> l[Len(l) + 1 - i]]

DecodeListReversed(out) ==
    IF out.t = "list" THEN [err |-> FALSE, roles |-> Reverse(out.l)]
    ELSE IF out.t = "absent" THEN [err |-> FALSE, roles |-> <<>>]
    ELSE [err |-> TRUE, roles |-> <<>>]

\* json.Unmarshal into SaltGrainModel{Roles []string}: an array decodes, null
\* leaves Roles nil without error, a string is a type error.
DecodeList(out) ==
    IF out.t = "list" THEN [err |-> FALSE, roles |-> out.l]
    ELSE IF out.t = "absent" THEN [err |-> FALSE, roles |-> <<>>]
    ELSE [err |-> TRUE, roles |-> <<>>]

DecodeStringAsList(out) == IF out.t = "list" /\ out.l # <<>> THEN out.l[1] ELSE ""

\* json.Unmarshal into SaltGrainStringModel{Value string}, error ignored: a
\* string decodes, anything else leaves Value "".
DecodeString(out) == IF out.t = "str" THEN out.s ELSE ""

\* ---------------------------------------------------------------- Transport
\* What the environment decides for one runRemoteCommand call: whether the
\* key parses, the dial succeeds, the session opens, the command exits 0.
\* At most one of the four goes wrong in a call (a later stage's outcome
\* never shows once an earlier one failed).
Outcomes ==
    {o \in [key : BOOLEAN, dial : BOOLEAN, session : BOOLEAN, exit : BOOLEAN] :
        Cardinality({f \in {"key", "dial", "session", "exit"} : ~o[f]}) <= 1}

\* The stages of runRemoteCommand, in the order of the code.
runRemoteCommand(o) ==
    IF ~o.key THEN "InvalidCredential"
    ELSE IF ~o.dial THEN "ConnectionError"
    ELSE IF ~o.session THEN "SessionError"
    ELSE IF ~o.exit THEN "CommandError"
    ELSE "ok"

AttemptedDialFirst(o) ==
    IF ~o.dial THEN <<"dial">>
    ELSE IF ~o.key THEN <<"dial", "parse">>
    ELSE IF ~o.session THEN <<"dial", "parse", "session">>
    ELSE <<"dial", "parse", "session", "run">>

\* The stages one runRemoteCommand call goes through, in the order of the
\* code: ssh.ParsePrivateKey, ssh.Dial, client.NewSession, session.Output.
Attempted(o) ==
    IF ~o.key THEN <<"parse">>
    ELSE IF ~o.dial THEN <<"parse", "dial">>
    ELSE IF ~o.session THEN <<"parse", "dial", "session">>
    ELSE <<"parse", "dial", "session", "run">>

ConnReused(n, o) == IF o.key /\ o.dial THEN (IF n > 0 THEN n ELSE 1) ELSE 0

\* The connection a call works on, named by the number of the call that
\* dialed it (0: none): the n+1-th call of a handler dials its own with
\* ssh.Dial once the key has parsed; nothing is kept from call to call.
ConnUsed(n, o) == IF o.key /\ o.dial THEN n + 1 ELSE 0

\* What a call has opened and not closed when it returns: neither the
\* client nor the session is ever given a Close, on any path.
LeftOpen(o) ==
    IF o.key /\ o.dial
    THEN {"client"} \cup (IF o.session THEN {"session"} ELSE {})
    ELSE {}

\* The string runRemoteCommand returns: the command's standard output on
\* success, "" with every error.
Returned(o) == IF runRemoteCommand(o) = "ok" THEN "stdout" ELSE ""

\* What the text of the returned error carries (the fmt.Errorf arguments):
\* the cause is the failing call's own error, for a command that exited
\* non-zero the ssh.ExitError with the exit status; the bytes session.Output
\* captured are not among the arguments.
ErrorParts(o) ==
    CASE runRemoteCommand(o) = "InvalidCredential" -> {"cause"}
      [] runRemoteCommand(o) = "ConnectionError" -> {"server", "cause"}
      [] runRemoteCommand(o) = "SessionError" -> {"server", "cause"}
      [] runRemoteCommand(o) = "CommandError" -> {"command", "server", "cause"}
      [] OTHER -> {}

\* ------------------------------------------------------------ ReadinessGate
InventoryLists == {<<"H1", "h10">>, <<"h10", "h1">>, <<"H2", "h2", "h1">>}

NoResp == [kind |-> "none", result |-> <<>>]

InvResponses ==
    {[kind |-> k, result |-> <<>>] : k \in {"login_failed", "list_failed", "parse_failed"}}
    \cup {[kind |-> "ok", result |-> l] : l \in InventoryLists}

Lower(s) == CASE s = "H1" -> "h1" [] s = "H2" -> "h2" [] OTHER -> s

CheckServerAcceptedFold(resp, serverName) ==
    IF resp.kind # "ok" THEN [found |-> FALSE, err |-> TRUE]
    ELSE [found |-> \E i \in 1..Len(resp.result) : Lower(resp.result[i]) = Lower(serverName),
          err |-> FALSE]

\* CheckServerAccepted: login, fetch, parse, then an exact-match scan.
CheckServerAccepted(resp, serverName) ==
    IF resp.kind # "ok" THEN [found |-> FALSE, err |-> TRUE]
    ELSE [found |-> \E i \in 1..Len(resp.result) : resp.result[i] = serverName,
          err |-> FALSE]

GateDecisionRetry(c) == IF c.found THEN "ok" ELSE "sleep"

\* The body of waitMinionIsUp's loop after the inventory call returned.
GateDecision(c) ==
    IF c.err THEN "InventoryError"
    ELSE IF c.found THEN "ok"
    ELSE "sleep"

DeadlineNever(elapsed) == FALSE

\* time.Now().After(deadline), deadline = start + timeout.
DeadlinePassed(elapsed) == elapsed > TimeoutSeconds

\* Time between two readings of the clock in the loop: the sleep, and
\* however long the sleep and the inventory call really took.
SleepTimes == {PollSeconds, TimeoutSeconds}

\* The decimal digits of a natural number, as fmt's %d prints them.
RECURSIVE Digits(_)
Digits(n) == IF n < 10 THEN <<n>> ELSE Append(Digits(n \div 10), n % 10)

\* timeout is a time.Duration, an int64 count of nanoseconds: 30 * time.Minute
\* is TimeoutSeconds * 10^9, in decimal the digits of TimeoutSeconds followed
\* by nine zeros.
DurationDigits(seconds) == Digits(seconds) \o [i \in 1..9 |-> 0]

\* The number in "timeout reached after %d minutes": Errorf is given the
\* Duration itself.
TimeoutShown == DurationDigits(TimeoutSeconds)

NoGate == [elapsed |-> 0, polls |-> 0, resp |-> NoResp, res |-> "none", shown |-> <<>>]

GateDone(r) ==
    [elapsed |-> 0, polls |-> 0, resp |-> NoResp, res |-> r,
     shown |-> IF r = "TimeoutError" THEN TimeoutShown ELSE <<>>]

ProceedAlways(res) == TRUE

\* "err := r.waitMinionIsUp(...); if err != nil { AddError; return }"
GatePassed(res) == res = "ok"

\* ------------------------------------------------------------ ListReconciler
IsLiveFirst(v, roles) == Len(roles) > 0 /\ v = roles[1]

\* Update phase 1: is the desired element in the live snapshot?
IsLive(v, roles) == \E i \in 1..Len(roles) : v = roles[i]

InDesiredFirst(v, desired) == Len(desired) > 0 /\ v = desired[1]

RefetchedSnapshot(before, fetched) == before

\* Update phase 2: "liveGrains = SaltGrainModel{}" and the decode of the
\* second grains.get: the list phase 3 loops over is the one just fetched.
Refetched(before, fetched) == fetched

\* Update phase 3: is the live element anywhere in the desired list?
InDesired(v, desired) == \E i \in 1..Len(desired) : v = desired[i]

\* ------------------------------------------------------- ConvergenceTrigger
AfterScanSleepFirst(found) == "apply_sleep"

AfterScanGiveUp(found) == "apply_launch"

\* The script after one scan: "if [ $found -eq 0 ]; then break; fi; sleep 1".
AfterScan(found) == IF found THEN "apply_sleep" ELSE "apply_launch"

\* Phase 3 of the earlier GrainResource.Update (provider.go:342-488): the
\* inner loop runs over the desired list but compares the live element with
\* grainValueStr, the variable phase 1 left at the last desired element; with
\* an empty desired list the loop body never runs.
InDesiredEarlier(v, desired) == Len(desired) > 0 /\ v = desired[Len(desired)]

\* The membership test of phase 3 in the resource of the kind.
Phase3Keeps(kind, v, desired) ==
    IF kind = "list_earlier" THEN InDesiredEarlier(v, desired) ELSE InDesired(v, desired)

\* -------------------------------------------------------------- diagnostics
Diag(sev, what) == [sev |-> sev, what |-> what]

HasError(d) == \E i \in 1..Len(d) : d[i].sev = "error"

\* "if err != nil { AddError }; AddWarning(result)" after applyState.
ApplyDiags(err) ==
    IF err THEN <<Diag("error", "apply"), Diag("warning", "apply")>>
    ELSE <<Diag("warning", "apply")>>


\* -------------------------------------------------------------------- state
VARIABLES
    grains,     \* the minions' grain stores: host -> key -> GrainValue
    extJob,     \* hosts where a convergence job started by someone else runs
    ident,      \* caller -> the (server, grain_key, resource type) it manages
    lastMut,    \* host -> key -> the setval that last changed the grain, if
                \* no other command changed it since (history: who set a
                \* scalar, and to what)
    pc,         \* caller -> position in the running handler
    op,         \* caller -> the request: operation, value, apply_state (and
                \* history: the grain on the host when the handler was called)
    gate,       \* caller -> locals of waitMinionIsUp and its result
    cmds,       \* caller -> the commands runRemoteCommand was given, in order
    live,       \* caller -> liveGrains.Roles, the decoded live list
    snap,       \* caller -> the live list as first fetched by Update
    idx,        \* caller -> index of the loop over the list
    phase,      \* caller -> phase of list Update (0 before the first decode)
    diag,       \* caller -> resp.Diagnostics
    saved       \* caller -> what resp.State.Set stored

vars == <<grains, extJob, ident, lastMut, pc, op, gate, cmds,
          live, snap, idx, phase, diag, saved>>

Server(p) == ident[p].server
Key(p) == ident[p].key
Kind(p) == ident[p].res

\* data.Server.ValueString() and data.GrainKey.String() as the running
\* handler reads them.  Plan and stored state carry the resource's server and
\* key (both required attributes); a state written by ImportState carries
\* null for both, which ValueString() gives as "" and String() as <null>.
DataServer(p) == IF op[p].imported THEN "" ELSE Server(p)

DataKey(p) == IF op[p].imported THEN Bare("<null>") ELSE Quoted(Key(p))

\* The grain a minion holds under a key; a host or key outside the modelled
\* minions holds nothing.
Stored(h, k) == IF h \in Hosts /\ k \in Keys THEN grains[h][k] ELSE Absent

NoMut == [verb |-> "none", by |-> "none", kind |-> "none", arg |-> NoWord]
NoOp ==
    [name |-> "none", value |-> Absent, apply |-> FALSE, pre |-> Absent,
     again |-> FALSE, imported |-> FALSE]
NoSave == [set |-> FALSE, val |-> Absent]

ScalarPlans == {Str(s) : s \in Values}

ListPlans == {Lst(l) : l \in Lists(MaxLen)}

DesiredOf(kind) == IF kind = "scalar" THEN ScalarPlans ELSE ListPlans

\* Convergence jobs running on host h: the foreign one and the callers'.
RunningJobs(h) ==
    (IF h \in extJob THEN 1 ELSE 0)
    + Cardinality({p \in Procs : pc[p] = "apply_run" /\ Server(p) = h})

EntryExcept(kind, name, k, n, to) ==
    IF kind = k /\ name = n THEN to
    ELSE IF kind = "list"
    THEN CASE name = "Create" -> "lc_append"
           [] name = "Read" -> "l_get"
           [] name = "Update" -> "lu_get1"
           [] name = "Delete" -> "ld_remove"
    ELSE CASE name = "Read" -> "s_get"
           [] name = "Delete" -> "s_del"
           [] OTHER -> "s_set"

EntryDeleteReads(kind, name) == EntryExcept(kind, name, "scalar", "Delete", "s_get")

EntryCreateReconciles(kind, name) == EntryExcept(kind, name, "list", "Create", "lu_get1")

EntryReadWrites(kind, name) == EntryExcept(kind, name, "scalar", "Read", "s_set")

EntryUpdateReads(kind, name) == EntryExcept(kind, name, "scalar", "Update", "s_get")

\* First remote command of each handler, after the gate.
Entry(kind, name) ==
    IF kind = "list"
    THEN CASE name = "Create" -> "lc_append"
           [] name = "Read" -> "l_get"
           [] name = "Update" -> "lu_get1"
           [] name = "Delete" -> "ld_remove"
    ELSE CASE name = "Read" -> "s_get"
           [] name = "Delete" -> "s_del"
           [] OTHER -> "s_set"

InitCommon ==
    /\ lastMut = [h \in Hosts |-> [k \in Keys |-> NoMut]]
    /\ pc = [p \in Procs |-> "idle"]
    /\ op = [p \in Procs |-> NoOp]
    /\ gate = [p \in Procs |-> NoGate]
    /\ cmds = [p \in Procs |-> <<>>]
    /\ live = [p \in Procs |-> <<>>]
    /\ snap = [p \in Procs |-> <<>>]
    /\ idx = [p \in Procs |-> 1]
    /\ phase = [p \in Procs |-> 0]
    /\ diag = [p \in Procs |-> <<>>]
    /\ saved = [p \in Procs |-> NoSave]

\* One resource instance, any grain under its key, possibly a foreign
\* convergence job already running on its host.
Init ==
    /\ InitCommon
    /\ \E t \in Targets, r \in Kinds :
          ident = [p \in Procs |-> [server |-> t[1], key |-> t[2], res |-> r]]
    /\ \E g \in InitGrains :
          grains = [h \in Hosts |-> [k \in Keys |->
                       IF h = ident[1].server /\ k = ident[1].key THEN g ELSE Bystander]]
    /\ extJob \in {{}, {ident[1].server}}

\* ---------------------------------------------------------- handler pieces
ReturnContinue(p, d, s) ==
    /\ pc' = pc
    /\ diag' = [diag EXCEPT ![p] = @ \o d]
    /\ saved' = [saved EXCEPT ![p] = s]

\* The handler returns: diagnostics d appended, state s stored (or kept).
Return(p, d, s) ==
    /\ pc' = [pc EXCEPT ![p] = "done"]
    /\ diag' = [diag EXCEPT ![p] = @ \o d]
    /\ saved' = [saved EXCEPT ![p] = s]

\* resp.State.Set(ctx, &data) at the end of Create and Update; Delete stores
\* nothing.
SavedAtEnd(p) ==
    IF op[p].name \in {"Create", "Update"}
    THEN [set |-> TRUE, val |-> op[p].value]
    ELSE saved[p]

\* After the grain commands: "if data.ApplyState.ValueBool() { applyState }",
\* else straight to the end of the handler.
AfterMutation(p) ==
    IF op[p].apply
    THEN /\ pc' = [pc EXCEPT ![p] = IF Kind(p) = "list_earlier" THEN "apply_earlier"
                                    ELSE "apply"]
         /\ UNCHANGED <<diag, saved>>
    ELSE Return(p, <<>>, SavedAtEnd(p))

\* After applyState returned err: the diagnostics, then "if HasError return",
\* else the end of the handler.
AfterApply(p, err) ==
    LET d == ApplyDiags(err)
    IN  IF HasError(diag[p] \o d)
        THEN Return(p, d, saved[p])
        ELSE Return(p, d, SavedAtEnd(p))

DialHostFirst(server) == "h1"

\* ssh.Dial("tcp", fmt.Sprintf("%s:22", data.Server.ValueString()), config):
\* the host whose minion runs the command of a call.
DialHost(server) == server

\* One runRemoteCommand call: the command is logged with its result, and
\* the minion executes it when the call got as far as running it.
Exec(p, verb, val, res, o) ==
    LET h == DialHost(DataServer(p))
        k == ShellWord(DataKey(p))
    IN  /\ cmds' = [cmds EXCEPT ![p] = Append(@,
                      [verb |-> verb, host |-> h, key |-> DataKey(p),
                       val |-> val, res |-> res, stages |-> Attempted(o),
                       out |-> IF res = "running" THEN "" ELSE Returned(o),
                       detail |-> ErrorParts(o), conn |-> ConnUsed(Len(cmds[p]), o),
                       open |-> LeftOpen(o)])]
        /\ IF res = "ok" /\ verb \in MutVerbs /\ h \in Hosts /\ k \in Keys
           THEN /\ grains' = [grains EXCEPT ![h][k] = HostApply(verb, @, ShellWord(val))]
                /\ lastMut' = [lastMut EXCEPT ![h][k] =
                                 IF verb = "setval"
                                 THEN [verb |-> verb, by |-> op[p].name, kind |-> Kind(p),
                                       arg |-> val]
                                 ELSE NoMut]
           ELSE UNCHANGED <<grains, lastMut>>

envVars == <<extJob, ident>>
loopVars == <<live, snap, idx, phase>>

\* ------------------------------------------------------------------ actions
\* The framework calls a handler of the caller's resource.
StartWith(p, names, values, applies) ==
    /\ pc[p] = "idle"
    /\ \E n \in names, v \in values \cap DesiredOf(Kind(p)), a \in applies :
          op' = [op EXCEPT ![p] = [name |-> n, value |-> v, apply |-> a,
                                   pre |-> grains[Server(p)][Key(p)],
                                   again |-> FALSE, imported |-> FALSE]]
    /\ pc' = [pc EXCEPT ![p] = "gate"]
    /\ UNCHANGED <<grains, lastMut, extJob, ident, gate, cmds, loopVars, diag, saved>>

Start(p) == StartWith(p, OpNames, DesiredOf(Kind(p)), BOOLEAN)

\* The plans of the resources handled side by side.
ParDesired == {Lst(<<"docker">>), Lst(<<"web">>), Str("web")}

\* The framework calls a handler of a resource whose apply_state is true,
\* while another resource's handler may be running.
StartPar(p) == StartWith(p, OpNames, ParDesired, {TRUE})

\* The handler has returned and the framework has taken its response: the
\* handler's locals and its response are gone, the instance can be called
\* again.
Release(p) ==
    /\ pc[p] = "done"
    /\ pc' = [pc EXCEPT ![p] = "idle"]
    /\ op' = [op EXCEPT ![p] = NoOp]
    /\ gate' = [gate EXCEPT ![p] = NoGate]
    /\ cmds' = [cmds EXCEPT ![p] = <<>>]
    /\ live' = [live EXCEPT ![p] = <<>>]
    /\ snap' = [snap EXCEPT ![p] = <<>>]
    /\ idx' = [idx EXCEPT ![p] = 1]
    /\ phase' = [phase EXCEPT ![p] = 0]
    /\ diag' = [diag EXCEPT ![p] = <<>>]
    /\ saved' = [saved EXCEPT ![p] = NoSave]
    /\ UNCHANGED <<grains, lastMut, extJob, ident>>

\* ImportState: ImportStatePassthroughID stores the given id in the state and
\* returns; no gate, no command, every other attribute of the state is null.
ImportState(p) ==
    /\ pc[p] = "idle"
    /\ op' = [op EXCEPT ![p] = [name |-> "ImportState", value |-> Absent,
                                apply |-> FALSE,
                                pre |-> grains[Server(p)][Key(p)],
                                again |-> FALSE, imported |-> TRUE]]
    /\ saved' = [saved EXCEPT ![p] = [set |-> TRUE, val |-> Absent]]
    /\ pc' = [pc EXCEPT ![p] = "done"]
    /\ UNCHANGED <<grains, lastMut, extJob, ident, gate, cmds, loopVars, diag>>

\* The framework refreshes the imported resource: Read is called with the
\* state ImportState stored (server, grain_key, grain_value, apply_state
\* null).  The earlier Read sends its grains.get at once, the later ones
\* call the readiness gate first.
ReadImported(p) ==
    /\ pc[p] = "done"
    /\ op[p].name = "ImportState"
    /\ op' = [op EXCEPT ![p].name = "Read", ![p].value = saved[p].val,
                        ![p].pre = grains[Server(p)][Key(p)]]
    /\ pc' = [pc EXCEPT ![p] = IF Kind(p) = "list_earlier" THEN "l_get" ELSE "gate"]
    /\ saved' = [saved EXCEPT ![p] = NoSave]
    /\ UNCHANGED <<grains, lastMut, extJob, ident, gate, cmds, loopVars, diag>>

\* The framework calls Update again with the plan of a list Update that has
\* just ended without error (a second apply of the same configuration).
Repeat(p) ==
    /\ pc[p] = "done"
    /\ Kind(p) = "list" /\ op[p].name = "Update"
    /\ ~HasError(diag[p])
    /\ op' = [op EXCEPT ![p].pre = grains[Server(p)][Key(p)], ![p].again = TRUE]
    /\ pc' = [pc EXCEPT ![p] = "gate"]
    /\ gate' = [gate EXCEPT ![p] = NoGate]
    /\ cmds' = [cmds EXCEPT ![p] = <<>>]
    /\ live' = [live EXCEPT ![p] = <<>>]
    /\ snap' = [snap EXCEPT ![p] = <<>>]
    /\ idx' = [idx EXCEPT ![p] = 1]
    /\ phase' = [phase EXCEPT ![p] = 0]
    /\ diag' = [diag EXCEPT ![p] = <<>>]
    /\ saved' = [saved EXCEPT ![p] = NoSave]
    /\ UNCHANGED <<grains, lastMut, extJob, ident>>

\* waitMinionIsUp, top of the loop: the deadline test, then the inventory call.
GateCall(p) ==
    /\ pc[p] = "gate"
    /\ gate[p].resp = NoResp
    /\ IF DeadlinePassed(gate[p].elapsed)
       THEN /\ gate' = [gate EXCEPT ![p] = GateDone("TimeoutError")]
            /\ Return(p, <<Diag("error", "gate")>>, saved[p])
       ELSE /\ \E r \in InvResponses :
                 gate' = [gate EXCEPT ![p].resp = r, ![p].polls = @ + 1]
            /\ UNCHANGED <<pc, diag, saved>>
    /\ UNCHANGED <<grains, lastMut, envVars, op, cmds, loopVars>>

\* waitMinionIsUp, rest of the loop body, and the handler's test of its result.
GateStep(p) ==
    /\ pc[p] = "gate"
    /\ gate[p].resp # NoResp
    /\ LET d == GateDecision(CheckServerAccepted(gate[p].resp, DataServer(p)))
       IN  IF d = "sleep"
           THEN /\ \E dt \in SleepTimes :
                     /\ gate[p].polls < MaxPolls \/ DeadlinePassed(gate[p].elapsed + dt)
                     /\ gate' = [gate EXCEPT ![p].elapsed = @ + dt, ![p].resp = NoResp]
                /\ UNCHANGED <<pc, diag, saved>>
           ELSE /\ gate' = [gate EXCEPT ![p] = GateDone(d)]
                /\ IF GatePassed(d)
                   THEN /\ pc' = [pc EXCEPT ![p] = Entry(Kind(p), op[p].name)]
                        /\ UNCHANGED <<diag, saved>>
                   ELSE Return(p, <<Diag("error", "gate")>>, saved[p])
    /\ UNCHANGED <<grains, lastMut, envVars, op, cmds, loopVars>>

\* List Create: one grains.append per element of the plan's list.
ListCreateAppend(p) ==
    /\ pc[p] = "lc_append"
    /\ IF idx[p] > Len(op[p].value.l)
       THEN /\ AfterMutation(p)
            /\ UNCHANGED <<grains, lastMut, cmds, idx>>
       ELSE \E o \in Outcomes :
               LET res == runRemoteCommand(o)
               IN  /\ Exec(p, "append", Quoted(op[p].value.l[idx[p]]), res, o)
                   /\ IF res = "ok"
                      THEN /\ idx' = [idx EXCEPT ![p] = @ + 1]
                           /\ UNCHANGED <<pc, diag, saved>>
                      ELSE /\ Return(p, <<Diag("error", "append")>>, saved[p])
                           /\ UNCHANGED idx
    /\ UNCHANGED <<envVars, op, gate, live, snap, phase>>

\* List Read: grains.get, decode (error ignored), store the decoded list.
ListRead(p) ==
    /\ pc[p] = "l_get"
    /\ \E o \in Outcomes :
          LET res == runRemoteCommand(o)
              dec == DecodeList(HostGet(Stored(DialHost(DataServer(p)), ShellWord(DataKey(p)))))
          IN  /\ Exec(p, "get", NoWord, res, o)
              /\ IF res = "ok"
                 THEN /\ live' = [live EXCEPT ![p] = dec.roles]
                      /\ Return(p, <<>>, [set |-> TRUE, val |-> Lst(dec.roles)])
                 ELSE /\ Return(p, <<Diag("error", "get")>>, saved[p])
                      /\ UNCHANGED live
    /\ UNCHANGED <<envVars, op, gate, snap, idx, phase>>

\* List Update: the first grains.get and its decode.
ListUpdateGet1(p) ==
    /\ pc[p] = "lu_get1"
    /\ \E o \in Outcomes :
          LET res == runRemoteCommand(o)
              dec == DecodeList(HostGet(Stored(DialHost(DataServer(p)), ShellWord(DataKey(p)))))
          IN  /\ Exec(p, "get", NoWord, res, o)
              /\ IF res # "ok"
                 THEN /\ Return(p, <<Diag("error", "get")>>, saved[p])
                      /\ UNCHANGED loopVars
                 ELSE IF dec.err
                 THEN /\ Return(p, <<>>, saved[p])
                      /\ UNCHANGED loopVars
                 ELSE /\ live' = [live EXCEPT ![p] = dec.roles]
                      /\ snap' = [snap EXCEPT ![p] = dec.roles]
                      /\ idx' = [idx EXCEPT ![p] = 1]
                      /\ phase' = [phase EXCEPT ![p] = 1]
                      /\ pc' = [pc EXCEPT ![p] = "lu_append"]
                      /\ UNCHANGED <<diag, saved>>
    /\ UNCHANGED <<envVars, op, gate>>

\* List Update phase 1: one iteration of the loop over the desired list.
ListUpdateAppend(p) ==
    /\ pc[p] = "lu_append"
    /\ IF idx[p] > Len(op[p].value.l)
       THEN /\ pc' = [pc EXCEPT ![p] = "lu_get2"]
            /\ UNCHANGED <<grains, lastMut, cmds, idx, diag, saved>>
       ELSE IF IsLive(op[p].value.l[idx[p]], live[p])
       THEN /\ idx' = [idx EXCEPT ![p] = @ + 1]
            /\ UNCHANGED <<grains, lastMut, cmds, pc, diag, saved>>
       ELSE \E o \in Outcomes :
               LET res == runRemoteCommand(o)
               IN  /\ Exec(p, "append", Quoted(op[p].value.l[idx[p]]), res, o)
                   /\ IF res = "ok"
                      THEN /\ idx' = [idx EXCEPT ![p] = @ + 1]
                           /\ UNCHANGED <<pc, diag, saved>>
                      ELSE /\ Return(p, <<Diag("error", "append")>>, saved[p])
                           /\ UNCHANGED idx
    /\ UNCHANGED <<envVars, op, gate, live, snap, phase>>

\* List Update phase 2: the second grains.get and its decode.
ListUpdateGet2(p) ==
    /\ pc[p] = "lu_get2"
    /\ \E o \in Outcomes :
          LET res == runRemoteCommand(o)
              dec == DecodeList(HostGet(Stored(DialHost(DataServer(p)), ShellWord(DataKey(p)))))
          IN  /\ Exec(p, "get", NoWord, res, o)
              /\ IF res # "ok"
                 THEN /\ Return(p, <<Diag("error", "get")>>, saved[p])
                      /\ UNCHANGED <<live, idx, phase>>
                 ELSE IF dec.err
                 THEN /\ Return(p, <<>>, saved[p])
                      /\ UNCHANGED <<live, idx, phase>>
                 ELSE /\ live' = [live EXCEPT ![p] = Refetched(snap[p], dec.roles)]
                      /\ idx' = [idx EXCEPT ![p] = 1]
                      /\ phase' = [phase EXCEPT ![p] = 3]
                      /\ pc' = [pc EXCEPT ![p] = "lu_remove"]
                      /\ UNCHANGED <<diag, saved>>
    /\ UNCHANGED <<envVars, op, gate, snap>>

\* List Update phase 3: one iteration of the loop over the refreshed list.
ListUpdateRemove(p) ==
    /\ pc[p] = "lu_remove"
    /\ IF idx[p] > Len(live[p])
       THEN /\ AfterMutation(p)
            /\ UNCHANGED <<grains, lastMut, cmds, idx>>
       ELSE IF Phase3Keeps(Kind(p), live[p][idx[p]], op[p].value.l)
       THEN /\ idx' = [idx EXCEPT ![p] = @ + 1]
            /\ UNCHANGED <<grains, lastMut, cmds, pc, diag, saved>>
       ELSE \E o \in Outcomes :
               LET res == runRemoteCommand(o)
               IN  /\ Exec(p, "remove", Bare(live[p][idx[p]]), res, o)
                   /\ IF res = "ok"
                      THEN /\ idx' = [idx EXCEPT ![p] = @ + 1]
                           /\ UNCHANGED <<pc, diag, saved>>
                      ELSE /\ Return(p, <<Diag("error", "remove")>>, saved[p])
                           /\ UNCHANGED idx
    /\ UNCHANGED <<envVars, op, gate, live, snap, phase>>

\* List Delete: one grains.remove per element of the state's list.
ListDeleteRemove(p) ==
    /\ pc[p] = "ld_remove"
    /\ IF idx[p] > Len(op[p].value.l)
       THEN /\ AfterMutation(p)
            /\ UNCHANGED <<grains, lastMut, cmds, idx>>
       ELSE \E o \in Outcomes :
               LET res == runRemoteCommand(o)
               IN  /\ Exec(p, "remove", Quoted(op[p].value.l[idx[p]]), res, o)
                   /\ IF res = "ok"
                      THEN /\ idx' = [idx EXCEPT ![p] = @ + 1]
                           /\ UNCHANGED <<pc, diag, saved>>
                      ELSE /\ Return(p, <<Diag("error", "remove")>>, saved[p])
                           /\ UNCHANGED idx
    /\ UNCHANGED <<envVars, op, gate, live, snap, phase>>

\* Scalar Create and Update: one grains.setval with the plan's value.
ScalarSet(p) ==
    /\ pc[p] = "s_set"
    /\ \E o \in Outcomes :
          LET res == runRemoteCommand(o)
          IN  /\ Exec(p, "setval", Quoted(op[p].value.s), res, o)
              /\ IF res = "ok"
                 THEN AfterMutation(p)
                 ELSE Return(p, <<Diag("error", "setval")>>, saved[p])
    /\ UNCHANGED <<envVars, op, gate, loopVars>>

\* Scalar Read: grains.get, decode (error ignored), store the decoded value.
ScalarRead(p) ==
    /\ pc[p] = "s_get"
    /\ \E o \in Outcomes :
          LET res == runRemoteCommand(o)
              val == DecodeString(HostGet(Stored(DialHost(DataServer(p)), ShellWord(DataKey(p)))))
          IN  /\ Exec(p, "get", NoWord, res, o)
              /\ IF res = "ok"
                 THEN Return(p, <<>>, [set |-> TRUE, val |-> Str(val)])
                 ELSE Return(p, <<Diag("error", "get")>>, saved[p])
    /\ UNCHANGED <<envVars, op, gate, loopVars>>

\* Scalar Delete: one grains.delkey.
ScalarDelete(p) ==
    /\ pc[p] = "s_del"
    /\ \E o \in Outcomes :
          LET res == runRemoteCommand(o)
          IN  /\ Exec(p, "delkey", NoWord, res, o)
              /\ IF res = "ok"
                 THEN AfterMutation(p)
                 ELSE Return(p, <<Diag("error", "delkey")>>, saved[p])
    /\ UNCHANGED <<envVars, op, gate, loopVars>>

\* applyState: runRemoteCommand is given the convergence script; the call
\* fails before the script starts, or the script starts on the minion.
ApplyConnect(p) ==
    /\ pc[p] = "apply"
    /\ \E o \in {x \in Outcomes : x.exit} :
          LET res == runRemoteCommand(o)
          IN  IF res = "ok"
              THEN /\ Exec(p, "converge", NoWord, "running", o)
                   /\ pc' = [pc EXCEPT ![p] = "apply_scan"]
                   /\ UNCHANGED <<diag, saved>>
              ELSE /\ Exec(p, "converge", NoWord, res, o)
                   /\ AfterApply(p, TRUE)
    /\ UNCHANGED <<envVars, op, gate, loopVars>>

\* The script's busy-check: "for f in .../proc/*; grep state.apply", then
\* "if [ $found -eq 0 ]; then break; fi; sleep 1".
ApplyScan(p) ==
    /\ pc[p] = "apply_scan"
    /\ pc' = [pc EXCEPT ![p] = AfterScan(RunningJobs(Server(p)) > 0)]
    /\ UNCHANGED <<grains, lastMut, envVars, op, gate, cmds, loopVars, diag, saved>>

\* The script's "sleep 1; done": back to the top of the loop, a new scan.
ApplySleep(p) ==
    /\ pc[p] = "apply_sleep"
    /\ pc' = [pc EXCEPT ![p] = "apply_scan"]
    /\ UNCHANGED <<grains, lastMut, envVars, op, gate, cmds, loopVars, diag, saved>>

\* The script's last command: salt-call state.apply starts.
ApplyLaunch(p) ==
    /\ pc[p] = "apply_launch"
    /\ pc' = [pc EXCEPT ![p] = "apply_run"]
    /\ UNCHANGED <<grains, lastMut, envVars, op, gate, cmds, loopVars, diag, saved>>

\* The job ends and its exit status is the script's; applyState returns.
ApplyFinish(p) ==
    /\ pc[p] = "apply_run"
    /\ \E o \in {x \in Outcomes : x.key /\ x.dial /\ x.session} :
          /\ cmds' = [cmds EXCEPT ![p][Len(cmds[p])].res = runRemoteCommand(o),
                                  ![p][Len(cmds[p])].out = Returned(o),
                                  ![p][Len(cmds[p])].detail = ErrorParts(o)]
          /\ AfterApply(p, runRemoteCommand(o) # "ok")
    /\ UNCHANGED <<grains, lastMut, envVars, op, gate, loopVars>>

\* A convergence job started by someone else ends.
ForeignJobEnds(h) ==
    /\ h \in extJob
    /\ extJob' = extJob \ {h}
    /\ UNCHANGED <<grains, lastMut, ident, pc, op, gate, cmds,
                   loopVars, diag, saved>>

Handler(p) ==
    \/ GateCall(p)
    \/ GateStep(p)
    \/ ListCreateAppend(p)
    \/ ListRead(p)
    \/ ListUpdateGet1(p)
    \/ ListUpdateAppend(p)
    \/ ListUpdateGet2(p)
    \/ ListUpdateRemove(p)
    \/ ListDeleteRemove(p)
    \/ ScalarSet(p)
    \/ ScalarRead(p)
    \/ ScalarDelete(p)
    \/ ApplyConnect(p)
    \/ ApplyScan(p)
    \/ ApplySleep(p)
    \/ ApplyLaunch(p)
    \/ ApplyFinish(p)

\* Where a handler of the earlier GrainResource starts: none of them calls
\* a readiness gate, the first command comes right after the plan or the
\* state is read.
EntryEarlier(name) ==
    CASE name = "Create" -> "lc_append"
      [] name = "Read" -> "l_get"
      [] name = "Update" -> "lu_get1"
      [] name = "Delete" -> "ld_remove_earlier"

\* The framework calls a handler of the earlier GrainResource.
StartEarlier(p) ==
    /\ pc[p] = "idle"
    /\ \E n \in OpNames, v \in DesiredOf(Kind(p)), a \in BOOLEAN :
          /\ op' = [op EXCEPT ![p] = [name |-> n, value |-> v, apply |-> a,
                                      pre |-> grains[Server(p)][Key(p)],
                                      again |-> FALSE, imported |-> FALSE]]
          /\ pc' = [pc EXCEPT ![p] = EntryEarlier(n)]
    /\ UNCHANGED <<grains, lastMut, extJob, ident, gate, cmds, loopVars, diag, saved>>

\* The error of an earlier failed call reads like the error of this one: the
\* messages of runRemoteCommand name the stage that failed and the server,
\* and the command as well when the command itself failed.
SameError(c, res, val) ==
    /\ c.res = res
    /\ res # "ok"
    /\ res = "CommandError" => c.val = val

\* resp.Diagnostics.AddError(err.Error(), err.Error()): the diagnostic is
\* appended unless an equal one (same summary and detail) is already held.
AddError(d, x, held) == IF held THEN d ELSE Append(d, x)

\* The earlier Delete: one grains.remove per element of the state's list; a
\* failed remove adds an error and the loop goes on to the next element;
\* after the loop applyState is called when apply_state is set, whatever the
\* removes gave.  Two failures give one diagnostic when their messages are
\* equal, which takes the same stage, the same command and the same cause
\* as the transport words it.
ListDeleteRemoveEarlier(p) ==
    /\ pc[p] = "ld_remove_earlier"
    /\ IF idx[p] > Len(op[p].value.l)
       THEN /\ IF op[p].apply
               THEN /\ pc' = [pc EXCEPT ![p] = "apply_earlier"]
                    /\ UNCHANGED <<diag, saved>>
               ELSE Return(p, <<>>, saved[p])
            /\ UNCHANGED <<grains, lastMut, cmds, idx>>
       ELSE \E o \in Outcomes :
               LET res == runRemoteCommand(o)
                   val == Quoted(op[p].value.l[idx[p]])
                   said == \E i \in 1..Len(cmds[p]) : SameError(cmds[p][i], res, val)
               IN  /\ Exec(p, "remove", val, res, o)
                   /\ idx' = [idx EXCEPT ![p] = @ + 1]
                   /\ \E same \in (IF said THEN BOOLEAN ELSE {FALSE}) :
                         diag' = [diag EXCEPT ![p] =
                                    IF res = "ok" THEN @
                                    ELSE AddError(@, Diag("error", "remove"), same)]
                   /\ UNCHANGED <<pc, saved>>
    /\ UNCHANGED <<envVars, op, gate, live, snap, phase>>

\* The earlier applyState: salt-call state.apply as one command, no scan;
\* its error becomes an error diagnostic and the handler returns, else the
\* state is stored.
ApplyEarlier(p) ==
    /\ pc[p] = "apply_earlier"
    /\ \E o \in Outcomes :
          LET res == runRemoteCommand(o)
          IN  /\ Exec(p, "converge", NoWord, res, o)
              /\ IF res = "ok"
                 THEN Return(p, <<>>, SavedAtEnd(p))
                 ELSE Return(p, <<Diag("error", "apply")>>, saved[p])
    /\ UNCHANGED <<envVars, op, gate, loopVars>>

\* One resource instance, its operations one after another.
Next ==
    \/ Start(1)
    \/ ImportState(1)
    \/ ReadImported(1)
    \/ Handler(1)
    \/ Release(1)
    \/ Repeat(1)
    \/ \E h \in Hosts : ForeignJobEnds(h)

Spec == Init /\ [][Next]_vars


\* Two resource instances of one configuration, handled in parallel (the
\* framework runs independent resources concurrently), each on any host and
\* key; grains unset at the start, no foreign job.
InitPar ==
    /\ InitCommon
    /\ \E t \in Targets, r \in Kinds, h \in Hosts, k \in Keys, r2 \in Kinds :
          ident = [p \in Procs |->
                     IF p = 1 THEN [server |-> t[1], key |-> t[2], res |-> r]
                     ELSE [server |-> h, key |-> k, res |-> r2]]
    /\ grains = [h \in Hosts |-> [k \in Keys |-> Absent]]
    /\ extJob = {}

NextPar ==
    \E p \in Procs : StartPar(p) \/ ImportState(p) \/ ReadImported(p) \/ Handler(p)

SpecPar == InitPar /\ [][NextPar]_vars


\* One instance of the earlier list resource, its operations one after
\* another, on any grain.
InitEarlier ==
    /\ InitCommon
    /\ \E t \in Targets :
          ident = [p \in Procs |-> [server |-> t[1], key |-> t[2], res |-> "list_earlier"]]
    /\ \E g \in InitGrains :
          grains = [h \in Hosts |-> [k \in Keys |->
                       IF h = ident[1].server /\ k = ident[1].key THEN g ELSE Bystander]]
    /\ extJob = {}

NextEarlier ==
    \/ StartEarlier(1)
    \/ ImportState(1)
    \/ ReadImported(1)
    \/ ListCreateAppend(1)
    \/ ListRead(1)
    \/ ListUpdateGet1(1)
    \/ ListUpdateAppend(1)
    \/ ListUpdateGet2(1)
    \/ ListUpdateRemove(1)
    \/ ListDeleteRemoveEarlier(1)
    \/ ApplyEarlier(1)
    \/ Release(1)

SpecEarlier == InitEarlier /\ [][NextEarlier]_vars


\* One instance of the scalar resource; a handler that has been called keeps
\* running (its goroutine and the script on the minion are scheduled), while
\* nothing obliges the framework to call again or a foreign job to end.
InitScalar ==
    /\ InitCommon
    /\ \E t \in Targets :
          ident = [p \in Procs |-> [server |-> t[1], key |-> t[2], res |-> "scalar"]]
    /\ \E g \in {Absent} \cup {Str(v) : v \in Values} :
          grains = [h \in Hosts |-> [k \in Keys |->
                       IF h = ident[1].server /\ k = ident[1].key THEN g ELSE Bystander]]
    /\ extJob \in {{}, {ident[1].server}}

HandlerScalar(p) ==
    \/ GateCall(p)
    \/ GateStep(p)
    \/ ScalarSet(p)
    \/ ScalarRead(p)
    \/ ScalarDelete(p)
    \/ ApplyConnect(p)
    \/ ApplyScan(p)
    \/ ApplySleep(p)
    \/ ApplyLaunch(p)
    \/ ApplyFinish(p)

NextScalar ==
    \/ Start(1)
    \/ ImportState(1)
    \/ ReadImported(1)
    \/ HandlerScalar(1)
    \/ Release(1)
    \/ \E h \in Hosts : ForeignJobEnds(h)

SpecScalarFair == InitScalar /\ [][NextScalar]_vars /\ WF_vars(HandlerScalar(1))


\* ------------------------------------------------- vocabulary of the claims
Cell(p) == grains[Server(p)][Key(p)]

IsOp(p, kind, name) == Kind(p) = kind /\ op[p].name = name

Mutating(p) == op[p].name \in {"Create", "Update", "Delete"}

\* The values of the commands of one verb the caller issued, in order.
Issued(p, verb) ==
    LET sel == SelectSeq(cmds[p], LAMBDA c : c.verb = verb)
    IN  [i \in 1..Len(sel) |-> sel[i].val.s]

AllOk(p, verb) == \A i \in 1..Len(cmds[p]) : cmds[p][i].verb = verb => cmds[p][i].res = "ok"

GrainCommandsOk(p) ==
    \A i \in 1..Len(cmds[p]) : cmds[p][i].verb # "converge" => cmds[p][i].res = "ok"

Converges(p) == {i \in 1..Len(cmds[p]) : cmds[p][i].verb = "converge"}

TriggerFailed(p) ==
    /\ cmds[p] # <<>>
    /\ cmds[p][Len(cmds[p])].verb = "converge"
    /\ cmds[p][Len(cmds[p])].res \notin {"ok", "running"}

IsPrefix(a, b) == Len(a) <= Len(b) /\ a = SubSeq(b, 1, Len(a))

Without(l, s) == SelectSeq(l, LAMBDA v : v \notin s)

Waiting(p) == pc[p] \in {"apply_scan", "apply_sleep"}

\* The calls of a handler that opened a connection.
Dialed(p) == {i \in 1..Len(cmds[p]) : cmds[p][i].conn # 0}

FailKinds == {"login_failed", "list_failed", "parse_failed"}

Failed(c) == c.res \notin {"ok", "running"}

Verbs(p) == [i \in 1..Len(cmds[p]) |-> cmds[p][i].verb]

\* The response of grains.get on grain g does not decode in a resource of
\* the kind: a string where a list is expected, a list where a string is.
Undecodable(kind, g) == IF kind = "list" THEN g.t = "str" ELSE g.t = "list"

\* ------------------------------------------------------------------- claims

\* C1: a list Update that ends without error on a grain that held a list
\* (or nothing) leaves on the host exactly the elements of the desired list.
C1_UpdateMakesDesiredAuthoritative ==
    \A p \in Procs :
        (/\ pc[p] = "done"
         /\ IsOp(p, "list", "Update")
         /\ gate[p].res = "ok"
         /\ ~HasError(diag[p])
         /\ Cell(p).t # "str")
        => Elems(Cell(p).l) = Elems(op[p].value.l)

C1_Witness ==
    \E p \in Procs :
        /\ pc[p] = "done"
        /\ IsOp(p, "list", "Update")
        /\ ~HasError(diag[p])
        /\ op[p].value.l = <<"web", "docker">>
        /\ snap[p] = <<"docker", "docker">>
        /\ Issued(p, "append") = <<"web">>
        /\ Cell(p) = Lst(<<"docker", "docker", "web">>)

\* C2: on no host do two convergence jobs run at the same time.
C2_OneConvergenceJobPerHost == \A h \in Hosts : RunningJobs(h) <= 1

\* C3: a handler issues a command only after its own gate returned success,
\* and issues none when the gate returned TimeoutError or InventoryError.
C3_GateBeforeCommands ==
    \A p \in Procs :
        /\ cmds[p] # <<>> => gate[p].res = "ok"
        /\ pc[p] \notin {"idle", "gate", "done"} => gate[p].res = "ok"
        /\ gate[p].res \in {"TimeoutError", "InventoryError"}
              => cmds[p] = <<>> /\ pc[p] = "done" /\ HasError(diag[p])

C3_Witness ==
    \E p \in Procs :
        /\ gate[p].res = "TimeoutError"
        /\ IsOp(p, "scalar", "Delete")
        /\ pc[p] = "done"
        /\ cmds[p] = <<>>

\* C4: the gate returns success only in a step that handles an inventory
\* response of this very call whose accepted list holds the server's name,
\* character for character.
C4_GateExactMatch ==
    [][\A p \in Procs :
          (gate[p].res # "ok" /\ gate'[p].res = "ok")
          => /\ pc[p] = "gate"
             /\ gate[p].polls > 0
             /\ gate[p].resp.kind = "ok"
             /\ Server(p) \in Elems(gate[p].resp.result)]_vars

C4_Witness ==
    \E p \in Procs :
        /\ gate[p].res = "ok"
        /\ Server(p) = "h1"
        /\ pc[p] = Entry(Kind(p), op[p].name)
        /\ cmds[p] = <<>>

\* C5: the step that handles a failed inventory call ends the gate with
\* InventoryError and the handler with an error: no sleep, no further call.
C5_GateFailsFast ==
    [][\A p \in Procs :
          (pc[p] = "gate" /\ gate[p].resp.kind \in FailKinds /\ gate'[p] # gate[p])
          => /\ gate'[p] = GateDone("InventoryError")
             /\ pc'[p] = "done"
             /\ diag'[p] = <<Diag("error", "gate")>>]_vars

C5_Witness ==
    \E p \in Procs :
        /\ gate[p].res = "InventoryError"
        /\ pc[p] = "done"
        /\ diag[p] = <<Diag("error", "gate")>>

\* C6: in phase 3 of list Update the remove commands are, in order, the
\* elements of the re-fetched live list that the desired list does not hold:
\* a prefix of them while the loop runs or after a failed remove, all of them
\* once the loop has ended.
C6_Phase3RemovesExactly ==
    \A p \in Procs :
        IsOp(p, "list", "Update") =>
            LET want == Without(live[p], Elems(op[p].value.l))
                got == Issued(p, "remove")
            IN  /\ phase[p] < 3 => got = <<>>
                /\ phase[p] = 3 => IsPrefix(got, want)
                /\ (phase[p] = 3 /\ pc[p] # "lu_remove" /\ AllOk(p, "remove"))
                      => got = want

C6_Witness ==
    \E p \in Procs :
        /\ pc[p] = "done"
        /\ IsOp(p, "list", "Update")
        /\ ~HasError(diag[p])
        /\ op[p].value.l = <<"docker">>
        /\ snap[p] = <<"docker", "web">>
        /\ live[p] = <<"docker", "web">>
        /\ Issued(p, "append") = <<>>
        /\ Issued(p, "remove") = <<"web">>
        /\ Cell(p) = Lst(<<"docker">>)

\* C7: in phase 1 of list Update the append commands are, in order, the
\* elements of the desired list that the first-fetched live list does not
\* hold: a prefix of them while the loop runs or after a failed append, all
\* of them once the loop has ended.
C7_Phase1AppendsExactly ==
    \A p \in Procs :
        IsOp(p, "list", "Update") =>
            LET want == Without(op[p].value.l, Elems(snap[p]))
                got == Issued(p, "append")
            IN  /\ phase[p] = 0 => got = <<>>
                /\ phase[p] >= 1 => IsPrefix(got, want)
                /\ (phase[p] >= 1 /\ pc[p] # "lu_append" /\ AllOk(p, "append"))
                      => got = want

C7_Witness ==
    \E p \in Procs :
        /\ pc[p] = "done"
        /\ IsOp(p, "list", "Update")
        /\ ~HasError(diag[p])
        /\ op[p].value.l = <<"docker">>
        /\ snap[p] = <<>>
        /\ live[p] = <<"docker">>
        /\ Issued(p, "append") = <<"docker">>
        /\ Issued(p, "remove") = <<>>

C9_OneConvergenceAttempt ==
    \A p \in Procs :
        (pc[p] = "done" /\ Mutating(p) /\ gate[p].res = "ok") =>
            IF op[p].apply /\ GrainCommandsOk(p)
            THEN Converges(p) = {Len(cmds[p])}
            ELSE Converges(p) = {}

\* C10: a failed convergence trigger leaves no error diagnostic, and Create
\* and Update still store the state.
C10_TriggerFailureIsWarningOnly ==
    \A p \in Procs :
        (pc[p] = "done" /\ Mutating(p) /\ TriggerFailed(p))
        => /\ ~HasError(diag[p])
           /\ op[p].name \in {"Create", "Update"} => saved[p].set

\* C11: a list Read that ends without error on a grain that holds a list or
\* nothing stores exactly the list the host holds, in the host's order (the
\* empty list for an unset grain), whatever list the prior state held.
C11_ListReadReplaces ==
    \A p \in Procs :
        (/\ pc[p] = "done"
         /\ IsOp(p, "list", "Read")
         /\ ~HasError(diag[p])
         /\ gate[p].res = "ok"
         /\ Cell(p).t # "str")
        => /\ saved[p] = [set |-> TRUE, val |-> Lst(Cell(p).l)]
           /\ Issued(p, "get") = <<"">>

C11_Witness ==
    \E p \in Procs :
        /\ pc[p] = "done"
        /\ IsOp(p, "list", "Read")
        /\ ~HasError(diag[p])
        /\ op[p].value = Lst(<<"docker">>)
        /\ Cell(p) = Lst(<<"web", "docker">>)
        /\ saved[p] = [set |-> TRUE, val |-> Lst(<<"web", "docker">>)]

\* C12: when the response of a get command that succeeded does not decode,
\* list Read stores the empty list, scalar Read stores the empty string, and
\* a list Update whose commands all succeed appends every desired element and
\* stores its state.
C12_DecodeFailureTreatedAsAbsent ==
    \A p \in Procs :
        (/\ pc[p] = "done"
         /\ gate[p].res = "ok"
         /\ op[p].name \in {"Read", "Update"}
         /\ Undecodable(Kind(p), op[p].pre)
         /\ ~HasError(diag[p]))
        => /\ IsOp(p, "list", "Read") => saved[p] = [set |-> TRUE, val |-> Lst(<<>>)]
           /\ IsOp(p, "scalar", "Read") => saved[p] = [set |-> TRUE, val |-> Str("")]
           /\ IsOp(p, "list", "Update") =>
                 /\ Issued(p, "append") = op[p].value.l
                 /\ saved[p] = [set |-> TRUE, val |-> op[p].value]

\* C13: in list Create, Update and Delete only the last command issued can
\* have failed, the handler has then returned with an error, and no command
\* undoes an earlier one: Create issues no remove, Delete no append, Update
\* removes nothing it appended.
C13_AbortOnFirstFailure ==
    \A p \in Procs :
        (Kind(p) = "list" /\ Mutating(p)) =>
            /\ \A i \in 1..Len(cmds[p]) :
                  Failed(cmds[p][i])
                  => i = Len(cmds[p]) /\ pc[p] = "done" /\ HasError(diag[p])
            /\ op[p].name = "Create" => Issued(p, "remove") = <<>>
            /\ op[p].name = "Delete" => Issued(p, "append") = <<>>
            /\ Elems(Issued(p, "remove")) \cap Elems(Issued(p, "append")) = {}

C13_Witness ==
    \E p \in Procs :
        /\ pc[p] = "done"
        /\ IsOp(p, "list", "Update")
        /\ op[p].value = Lst(<<"docker", "web">>)
        /\ op[p].pre = Absent
        /\ Verbs(p) = <<"get", "append", "append">>
        /\ ~Failed(cmds[p][2])
        /\ cmds[p][3].res = "CommandError"
        /\ Cell(p) = Lst(<<"docker">>)
        /\ HasError(diag[p])

\* C14: a command that ended with InvalidCredential went through the key
\* parse only, with ConnectionError through parse and dial, with SessionError
\* through parse, dial and session creation, with CommandError through all
\* four stages; every failed command returned the empty output.
C14_StagesInOrder ==
    \A p \in Procs : \A i \in 1..Len(cmds[p]) :
        LET c == cmds[p][i]
        IN  /\ c.res = "InvalidCredential" => c.stages = <<"parse">>
            /\ c.res = "ConnectionError" => c.stages = <<"parse", "dial">>
            /\ c.res = "SessionError" => c.stages = <<"parse", "dial", "session">>
            /\ c.res = "CommandError" => c.stages = <<"parse", "dial", "session", "run">>
            /\ c.res \in {"ok", "running"} => c.stages = <<"parse", "dial", "session", "run">>
            /\ Failed(c) => c.out = ""

C14_Witness ==
    \E p \in Procs :
        /\ Len(cmds[p]) = 2
        /\ cmds[p][1].res = "ok"
        /\ cmds[p][1].out = "stdout"
        /\ cmds[p][2].res = "InvalidCredential"
        /\ cmds[p][2].stages = <<"parse">>
        /\ cmds[p][2].out = ""

\* C15: the error of a command that exited non-zero carries the output
\* captured from the command.
C15_CommandErrorCarriesOutput ==
    \A p \in Procs : \A i \in 1..Len(cmds[p]) :
        cmds[p][i].res = "CommandError" => "output" \in cmds[p][i].detail

\* C16: scalar Delete issues no get; its first command is the delkey of its
\* key, its only other command is the convergence command, issued when apply
\* is true and the delkey succeeded; past the gate it always issues the
\* delkey.
C16_ScalarDeleteOneDelkey ==
    \A p \in Procs :
        IsOp(p, "scalar", "Delete") =>
            /\ Issued(p, "get") = <<>>
            /\ Len(Issued(p, "delkey")) <= 1
            /\ Len(cmds[p]) <= 2
            /\ Len(cmds[p]) >= 1
                  => cmds[p][1].verb = "delkey" /\ cmds[p][1].key = Quoted(Key(p))
            /\ Len(cmds[p]) = 2
                  => cmds[p][2].verb = "converge" /\ op[p].apply /\ cmds[p][1].res = "ok"
            /\ (pc[p] = "done" /\ gate[p].res = "ok") => Len(cmds[p]) >= 1

C16_Witness ==
    \E p \in Procs :
        /\ pc[p] = "done"
        /\ IsOp(p, "scalar", "Delete")
        /\ op[p].pre = Lst(<<"web">>)
        /\ op[p].value = Str("docker")
        /\ Verbs(p) = <<"delkey", "converge">>
        /\ Cell(p) = Absent
        /\ ~HasError(diag[p])

\* C17: list Create issues no get and no remove; its appends are, in order,
\* the elements of the desired list, duplicates and already live elements
\* included: all of them once the loop has ended, a prefix that ends with
\* the failed one after a failure, which leaves an error.
C17_ListCreateAppendsInOrder ==
    \A p \in Procs :
        IsOp(p, "list", "Create") =>
            /\ Issued(p, "get") = <<>>
            /\ Issued(p, "remove") = <<>>
            /\ IsPrefix(Issued(p, "append"), op[p].value.l)
            /\ (gate[p].res = "ok" /\ pc[p] # "lc_append" /\ AllOk(p, "append"))
                  => Issued(p, "append") = op[p].value.l
            /\ ~AllOk(p, "append")
                  => /\ Failed(cmds[p][Len(cmds[p])])
                     /\ cmds[p][Len(cmds[p])].verb = "append"
                     /\ pc[p] = "done"
                     /\ HasError(diag[p])

C17_Witness ==
    \E p \in Procs :
        /\ pc[p] = "done"
        /\ IsOp(p, "list", "Create")
        /\ op[p].value = Lst(<<"web", "docker">>)
        /\ op[p].pre = Lst(<<"docker">>)
        /\ ~op[p].apply
        /\ Verbs(p) = <<"append", "append">>
        /\ Issued(p, "append") = <<"web", "docker">>
        /\ ~HasError(diag[p])
        /\ Cell(p) = Lst(<<"docker", "web">>)

\* C18: list Delete issues no get and no append; its removes are, in order,
\* the elements of the list in the caller's state (all of them once the loop
\* has ended); the elements the host held that are not in that list are on
\* the host as before.
C18_ListDeleteRemovesStateList ==
    \A p \in Procs :
        IsOp(p, "list", "Delete") =>
            /\ Issued(p, "get") = <<>>
            /\ Issued(p, "append") = <<>>
            /\ IsPrefix(Issued(p, "remove"), op[p].value.l)
            /\ (gate[p].res = "ok" /\ pc[p] # "ld_remove" /\ AllOk(p, "remove"))
                  => Issued(p, "remove") = op[p].value.l
            /\ Without(Cell(p).l, Elems(op[p].value.l))
                  = Without(op[p].pre.l, Elems(op[p].value.l))

C18_Witness ==
    \E p \in Procs :
        /\ pc[p] = "done"
        /\ IsOp(p, "list", "Delete")
        /\ op[p].value = Lst(<<"docker">>)
        /\ op[p].pre = Lst(<<"docker", "web">>)
        /\ Verbs(p) = <<"remove">>
        /\ ~HasError(diag[p])
        /\ Cell(p) = Lst(<<"web">>)

\* C19: scalar Create and Update issue no get; the first command is the
\* setval of the desired value, the only other command is the convergence
\* command; past the gate the setval is always issued, also when the host
\* already holds the value.
C19_ScalarSetOnce ==
    \A p \in Procs :
        (Kind(p) = "scalar" /\ op[p].name \in {"Create", "Update"}) =>
            /\ Issued(p, "get") = <<>>
            /\ Len(Issued(p, "setval")) <= 1
            /\ Len(cmds[p]) <= 2
            /\ Len(cmds[p]) >= 1
                  => /\ cmds[p][1].verb = "setval"
                     /\ cmds[p][1].key = Quoted(Key(p))
                     /\ cmds[p][1].val = Quoted(op[p].value.s)
            /\ Len(cmds[p]) = 2 => cmds[p][2].verb = "converge"
            /\ (pc[p] = "done" /\ gate[p].res = "ok") => Len(cmds[p]) >= 1

C19_Witness ==
    \E p \in Procs :
        /\ pc[p] = "done"
        /\ IsOp(p, "scalar", "Update")
        /\ op[p].pre = Str("web")
        /\ op[p].value = Str("web")
        /\ Verbs(p) = <<"setval">>
        /\ cmds[p][1].res = "ok"
        /\ Cell(p) = Str("web")

\* C20: the script sleeps only right after a scan that found a running job,
\* goes from a sleep to a new scan and nowhere else, launches only right
\* after a scan that found none, and after such a scan does nothing but
\* launch.
C20_SleepOnlyWhenBusy ==
    [][\A p \in Procs :
          /\ (pc[p] # "apply_sleep" /\ pc'[p] = "apply_sleep")
                => pc[p] = "apply_scan" /\ RunningJobs(Server(p)) > 0
          /\ (pc[p] = "apply_sleep" /\ pc'[p] # pc[p]) => pc'[p] = "apply_scan"
          /\ (pc[p] # "apply_launch" /\ pc'[p] = "apply_launch")
                => pc[p] = "apply_scan" /\ RunningJobs(Server(p)) = 0
          /\ (pc[p] = "apply_scan" /\ RunningJobs(Server(p)) = 0 /\ pc'[p] # pc[p])
                => pc'[p] = "apply_launch"]_vars

C20_Witness ==
    \E p \in Procs :
        /\ pc[p] = "apply_sleep"
        /\ Server(p) \in extJob
        /\ cmds[p][Len(cmds[p])].verb = "converge"

\* C21: a caller that waits while a convergence job runs on its host and
\* never ends stays in the scan-and-sleep loop for ever (no launch, no
\* return); when from some time on no job runs on the host, a caller at a
\* scan eventually launches.
C21_BusyWaitHasNoDeadline ==
    \A p \in Procs :
        /\ []((Waiting(p) /\ [](Server(p) \in extJob)) => []Waiting(p))
        /\ (<>[](Server(p) \notin extJob))
              => [](pc[p] = "apply_scan" => <>(pc[p] = "apply_launch"))

C21_Witness ==
    \E p \in Procs :
        /\ pc[p] = "apply_scan"
        /\ Server(p) \in extJob
        /\ IsOp(p, "scalar", "Create")
        /\ Verbs(p) = <<"setval", "converge">>
        /\ cmds[p][2].res = "running"

\* C22: a gate that has started always ends; it ends with TimeoutError only
\* when the clock is past start + 30 minutes, makes no inventory call then,
\* and at least 10 seconds pass between one poll and the next.
C22_GateTerminates ==
    /\ \A p \in Procs : pc[p] = "gate" ~> pc[p] # "gate"
    /\ [][\A p \in Procs :
             /\ (gate[p].res # "TimeoutError" /\ gate'[p].res = "TimeoutError")
                   => /\ gate[p].elapsed > 30 * 60
                      /\ gate'[p].polls = 0
                      /\ gate[p].resp = NoResp
             /\ gate'[p].polls > gate[p].polls => gate[p].elapsed <= 30 * 60
             /\ gate'[p].elapsed > gate[p].elapsed
                   => gate'[p].elapsed >= gate[p].elapsed + 10]_vars

C22_Witness ==
    \E p \in Procs :
        /\ gate[p].res = "TimeoutError"
        /\ pc[p] = "done"
        /\ IsOp(p, "scalar", "Read")
        /\ cmds[p] = <<>>
        /\ HasError(diag[p])

\* C23 as stated: a handler that has returned opened as many connections as
\* it issued commands.
C23_ConnectionPerCommand ==
    \A p \in Procs :
        pc[p] = "done" => Cardinality(Dialed(p)) = Len(cmds[p])

\* C23 amended: a call works on no connection but the one it dialed itself;
\* it has one exactly when its key parsed and its dial succeeded, and a
\* command runs only on the connection of its own call.
C23_OwnConnectionPerCall ==
    \A p \in Procs : \A i \in 1..Len(cmds[p]) :
        LET c == cmds[p][i]
        IN  /\ c.conn \in {0, i}
            /\ c.conn = i <=> c.res \notin {"InvalidCredential", "ConnectionError"}
            /\ "run" \in Elems(c.stages) => c.conn = i

C23_Witness ==
    \E p \in Procs :
        /\ pc[p] = "done"
        /\ IsOp(p, "list", "Update")
        /\ Verbs(p) = <<"get", "append", "get">>
        /\ cmds[p][1].conn = 1
        /\ cmds[p][2].conn = 2
        /\ cmds[p][3].res = "ConnectionError"
        /\ cmds[p][3].conn = 0

\* C24: the earlier Update removes no element that the desired list holds.
C24_EarlierUpdateKeepsDesired ==
    \A p \in Procs :
        IsOp(p, "list_earlier", "Update")
        => Elems(Issued(p, "remove")) \cap Elems(op[p].value.l) = {}

\* C25: the number in the message of a gate timeout is 30.
C25_TimeoutShownInMinutes ==
    \A p \in Procs :
        gate[p].res = "TimeoutError" => gate[p].shown = Digits(TimeoutSeconds \div 60)

\* C26: the list phase 3 loops over is the list the host holds at the second
\* fetch, and the removes are taken from it: every element removed is in it
\* and not in the desired list, whatever the first fetch returned.
C26_Phase3UsesRefetch ==
    [][\A p \in Procs :
          /\ (pc[p] = "lu_get2" /\ pc'[p] = "lu_remove")
                => live'[p] = grains[Server(p)][Key(p)].l
          /\ (IsOp(p, "list", "Update") /\ pc[p] = "lu_remove")
                => /\ live'[p] = live[p]
                   /\ IsPrefix(Issued(p, "remove")',
                               Without(live[p], Elems(op[p].value.l)))]_vars

C26_Witness ==
    \E p \in Procs :
        /\ IsOp(p, "list", "Update")
        /\ op[p].value = Lst(<<"docker">>)
        /\ snap[p] = <<>>
        /\ live[p] = <<"docker", "web">>
        /\ Issued(p, "append") = <<"docker">>
        /\ Issued(p, "remove") = <<"web">>
        /\ AllOk(p, "remove")

\* C27: a Create, Read or Update that has returned has stored state exactly
\* when it left no error diagnostic.
C27_StateWrittenIffNoError ==
    \A p \in Procs :
        (pc[p] = "done" /\ op[p].name \in {"Create", "Read", "Update"})
        => (saved[p].set <=> ~HasError(diag[p]))

\* C28: a list Update called again with the plan of an Update that ended
\* without error issues no append and no remove and leaves the grain as it
\* found it.
C28_UpdateIdempotent ==
    \A p \in Procs :
        (IsOp(p, "list", "Update") /\ op[p].again)
        => /\ Issued(p, "append") = <<>>
           /\ Issued(p, "remove") = <<>>
           /\ Cell(p) = op[p].pre

\* C29: a call that has returned has left no connection and no session
\* open.
C29_NothingLeftOpen ==
    \A p \in Procs : \A i \in 1..Len(cmds[p]) :
        cmds[p][i].res # "running" => cmds[p][i].open = {}

\* C30: a Read, scalar or list, with apply true or false, issues nothing but
\* one get (always one once past the gate) and leaves the grain as it found
\* it.
C30_ReadIsReadOnly ==
    \A p \in Procs :
        op[p].name = "Read" =>
            /\ Len(cmds[p]) <= 1
            /\ \A i \in 1..Len(cmds[p]) :
                  cmds[p][i].verb = "get" /\ cmds[p][i].key = Quoted(Key(p))
            /\ (pc[p] = "done" /\ gate[p].res = "ok") => Len(cmds[p]) = 1
            /\ Cell(p) = op[p].pre

C30_Witness ==
    \E p \in Procs :
        /\ pc[p] = "done"
        /\ IsOp(p, "scalar", "Read")
        /\ op[p].apply
        /\ Verbs(p) = <<"get">>
        /\ cmds[p][1].res = "ok"
        /\ op[p].pre = Str("web")
        /\ Cell(p) = Str("web")
        /\ ~HasError(diag[p])

\* The list with its duplicates removed: the first occurrence of each
\* element, in order.
RECURSIVE Dedup(_)
Dedup(l) ==
    IF l = <<>> THEN <<>>
    ELSE LET front == Dedup(SubSeq(l, 1, Len(l) - 1))
             last == l[Len(l)]
         IN  IF last \in Elems(front) THEN front ELSE Append(front, last)

\* C31: a list Update that has ended without error has issued the appends
\* and the removes that the desired list with its duplicates removed calls
\* for: each missing element appended once, each live element that is not
\* desired removed.
C31_DesiredListIsSet ==
    \A p \in Procs :
        (IsOp(p, "list", "Update") /\ pc[p] = "done" /\ saved[p].set)
        => /\ Issued(p, "append") = Without(Dedup(op[p].value.l), Elems(snap[p]))
           /\ Issued(p, "remove") = Without(live[p], Elems(Dedup(op[p].value.l)))

\* ------------------------------------------- Create, Read, Delete in a row
\* The framework refreshes a list resource that a Create on an unset key has
\* just stored without error: Read is called with the stored list.
ThenRead(p) ==
    /\ pc[p] = "done"
    /\ IsOp(p, "list", "Create")
    /\ op[p].pre = Absent
    /\ saved[p].set /\ ~HasError(diag[p])
    /\ op' = [op EXCEPT ![p] = [name |-> "Read", value |-> saved[p].val,
                                apply |-> op[p].apply,
                                pre |-> grains[Server(p)][Key(p)],
                                again |-> TRUE, imported |-> FALSE]]
    /\ pc' = [pc EXCEPT ![p] = "gate"]
    /\ gate' = [gate EXCEPT ![p] = NoGate]
    /\ cmds' = [cmds EXCEPT ![p] = <<>>]
    /\ live' = [live EXCEPT ![p] = <<>>]
    /\ idx' = [idx EXCEPT ![p] = 1]
    /\ diag' = [diag EXCEPT ![p] = <<>>]
    /\ saved' = [saved EXCEPT ![p] = NoSave]
    /\ UNCHANGED <<grains, lastMut, extJob, ident, snap, phase>>

\* The framework destroys the resource after that refresh: Delete is called
\* with the state the Read stored.
ThenDelete(p) ==
    /\ pc[p] = "done"
    /\ IsOp(p, "list", "Read")
    /\ op[p].again
    /\ saved[p].set /\ ~HasError(diag[p])
    /\ op' = [op EXCEPT ![p] = [name |-> "Delete", value |-> saved[p].val,
                                apply |-> op[p].apply,
                                pre |-> grains[Server(p)][Key(p)],
                                again |-> TRUE, imported |-> FALSE]]
    /\ pc' = [pc EXCEPT ![p] = "gate"]
    /\ gate' = [gate EXCEPT ![p] = NoGate]
    /\ cmds' = [cmds EXCEPT ![p] = <<>>]
    /\ live' = [live EXCEPT ![p] = <<>>]
    /\ idx' = [idx EXCEPT ![p] = 1]
    /\ diag' = [diag EXCEPT ![p] = <<>>]
    /\ saved' = [saved EXCEPT ![p] = NoSave]
    /\ UNCHANGED <<grains, lastMut, extJob, ident, snap, phase>>

StartCreate(p) == StartWith(p, {"Create"}, ListPlans, BOOLEAN)

InitRound ==
    /\ InitCommon
    /\ \E t \in Targets :
          ident = [p \in Procs |-> [server |-> t[1], key |-> t[2], res |-> "list"]]
    /\ \E g \in InitGrains :
          grains = [h \in Hosts |-> [k \in Keys |->
                       IF h = ident[1].server /\ k = ident[1].key THEN g ELSE Bystander]]
    /\ extJob \in {{}, {ident[1].server}}

HandlerRound(p) ==
    \/ GateCall(p)
    \/ GateStep(p)
    \/ ListCreateAppend(p)
    \/ ListRead(p)
    \/ ListDeleteRemove(p)
    \/ ApplyConnect(p)
    \/ ApplyScan(p)
    \/ ApplySleep(p)
    \/ ApplyLaunch(p)
    \/ ApplyFinish(p)

NextRound ==
    \/ StartCreate(1)
    \/ HandlerRound(1)
    \/ ThenRead(1)
    \/ ThenDelete(1)
    \/ Release(1)
    \/ \E h \in Hosts : ForeignJobEnds(h)

SpecRound == InitRound /\ [][NextRound]_vars

C33_OnlyOwnHostAndKey ==
    /\ \A p \in Procs : \A i \in 1..Len(cmds[p]) :
          /\ cmds[p][i].host = Server(p)
          /\ cmds[p][i].verb # "converge" => cmds[p][i].key = Quoted(Key(p))
    /\ \A h \in Hosts, k \in Keys :
          <<h, k>> # <<Server(1), Key(1)>> => grains[h][k] = Bystander

C33_Witness ==
    /\ pc[1] = "done"
    /\ IsOp(1, "list", "Update")
    /\ Server(1) = "h2" /\ Key(1) = "env"
    /\ ~HasError(diag[1])
    /\ op[1].pre = Lst(<<"web">>)
    /\ Issued(1, "append") = <<"docker">>
    /\ Issued(1, "remove") = <<"web">>
    /\ Cell(1) = Lst(<<"docker">>)
    /\ grains["h1"]["env"] = Bystander
    /\ grains["h2"]["roles"] = Bystander

====
